---------------------------- MODULE Spec2Model ----------------------------
(***************************************************************************)
(* A model of the museum availability checker:                             *)
(*   chichu_availability_checker.py  looks_available, the notifiers,       *)
(*                                   main() (single date) and the          *)
(*                                   __main__ block (multi date).          *)
(*   test_both_museums.py            check_museum and main(): one child    *)
(*                                   process per museum.                   *)
(*   railway_service.py              job() and the scheduler loop.         *)
(* A call into Playwright, the network or the operating system may raise;  *)
(* the model takes every outcome such a call can have.                     *)
(*                                                                         *)
(* Text is modelled as a sequence of tokens: a token is a word or symbol   *)
(* of the page, and a regular expression of the program is matched on the  *)
(* token sequence the way re.search matches it on the characters.  A       *)
(* string whose content is never inspected (an exception message) is       *)
(* modelled by its length.                                                 *)
(***************************************************************************)
EXTENDS Integers, Sequences, FiniteSets, TLC

VARIABLES
    mode,       \* "single" (main()), "multi" (the __main__ block), "looks", "cell",
                \* "service" (railway_service.py)
    pc,         \* position of the run in the code
    browser,    \* "none" | "open" | "closed"   (p.chromium.launch / browser.close)
    context,    \* "none" | "open" | "closed"   (browser.new_context / context.close)
    exc,        \* exception raised in the try block: "none" | "timeout" | "error"
    cleanup,    \* the finally block: "none" (not run) | "done" | "context raised"
                \*                    | "browser raised"
    outcome,    \* "running" | "returned" | "raised": how the run ended
    code,       \* main()'s return value, or the process exit code of __main__
    dates,      \* the batch of requested dates
    idx,        \* index into dates of the date the for loop is at
    results,    \* the results list
    verdict,    \* local verdict of the current date
    evidence,   \* local evidence list of the current date
    frame,      \* page._iframe_calendar is set
    navigated,  \* page._navigated_to_october is set and true
    host,       \* where the site renders the calendar: "frame" | "top"
    shown,      \* month the calendar displays
    form,       \* how the calendar writes its month heading
    clicks,     \* number of clicks on the next-month arrow
    printed,    \* the summary table has been printed
    is_open,    \* main()'s is_open
    calls,      \* notifier functions called, in order
    sent,       \* channels on which a delivery was attempted
    failed,     \* channels whose delivery failed (and was swallowed)
    enabled,    \* channels whose credentials / toggle are configured
    log,        \* what happened to each date: history of the per-date loop
    text,       \* argument of looks_available        (mode "looks")
    cell,       \* the date cell being classified     (mode "cell")
    answer,     \* result of the pure function under check
    spc,        \* position of the scheduler service in its code
    left,       \* minutes until the scheduled job is due (next_run - now)
    elapsed,    \* minutes the child process of subprocess.run has been running
    active,     \* museums whose child process is alive
    success,    \* what check_museum returned so far in the current run
    runs        \* number of jobs completed (counted up to MaxRuns)

vars == << mode, pc, browser, context, exc, cleanup, outcome, code, dates, idx, results,
           verdict, evidence, frame, navigated, host, shown, form, clicks,
           printed, is_open, calls, sent, failed, enabled, log, text, cell,
           answer, spc, left, elapsed, active, success, runs >>

ServiceVars == << spc, left, elapsed, active, success, runs >>

\* The scheduler service is not running.
ServiceOff ==
    /\ spc = "off" /\ left = 0 /\ elapsed = 0
    /\ active = << >> /\ success = << >> /\ runs = 0

(***************************************************************************)
(* Bounds of the model.                                                    *)
(***************************************************************************)
MaxTextLen == 3         \* tokens in a page text
MaxClassLen == 2        \* pieces in a class attribute
MaxDates == 2           \* dates in a batch
MaxRuns == 2            \* completed jobs of the service that are counted

Min(a, b) == IF a < b THEN a ELSE b

RECURSIVE SeqsUpTo(_, _)
SeqsUpTo(S, n) ==
    IF n = 0 THEN { << >> }
    ELSE LET shorter == SeqsUpTo(S, n - 1)
         IN  shorter \cup { Append(s, x) : s \in shorter, x \in S }

(***************************************************************************)
(* looks_available: the full-page classifier.                              *)
(***************************************************************************)
\* Tokens of a page text.  "SOLD" is "sold" in another case (re.I folds
\* it); "ws" is white space; "word" is any other word.
TextTokens == { "sold", "SOLD", "out", "fully", "booked", "unavailable", "ws",
                "cross1", "cross2", "cross3", "circle1", "circle2", "triangle",
                "word" }

Texts == SeqsUpTo(TextTokens, MaxTextLen)

\* re.I: case folding of a token.
Fold(tok) == IF tok = "SOLD" THEN "sold" ELSE tok

\* AVAILABILITY_POSITIVE: the two open-circle symbols, the triangle
AVAILABILITY_POSITIVE ==
    << [kind |-> "class", toks |-> {"circle1", "circle2"}],
       [kind |-> "class", toks |-> {"triangle"}] >>

\* AVAILABILITY_NEGATIVE: Sold\s*out, Fully\s*booked, Unavailable, the three
\* cross symbols
AVAILABILITY_NEGATIVE ==
    << [kind |-> "phrase", first |-> "sold", second |-> "out"],
       [kind |-> "phrase", first |-> "fully", second |-> "booked"],
       [kind |-> "class", toks |-> {"unavailable"}],
       [kind |-> "class", toks |-> {"cross1", "cross2", "cross3"}] >>

\* \s* followed by the second word, tried from position j.
RECURSIVE WsThen(_, _, _)
WsThen(s, j, tok) ==
    /\ j <= Len(s)
    /\ \/ Fold(s[j]) = tok
       \/ s[j] = "ws" /\ WsThen(s, j + 1, tok)

\* re.search(pat, text, flags=re.I) is not None
re_search(pat, s) ==
    IF pat.kind = "class"
    THEN \E k \in 1..Len(s) : Fold(s[k]) \in pat.toks
    ELSE \E k \in 1..Len(s) : Fold(s[k]) = pat.first /\ WsThen(s, k + 1, pat.second)

\* The first pattern of pats, from index k on, that matches s; 0 if none.
RECURSIVE FirstMatch(_, _, _)
FirstMatch(pats, k, s) ==
    IF k > Len(pats) THEN 0
    ELSE IF re_search(pats[k], s) THEN k
    ELSE FirstMatch(pats, k + 1, s)

\* A variant that does what the function's comment says ("positive beats
\* negative"): the positive patterns are tried first.
looks_available_positive_first(s) ==
    IF FirstMatch(AVAILABILITY_POSITIVE, 1, s) # 0 THEN TRUE
    ELSE FALSE

looks_available(s) ==
    IF FirstMatch(AVAILABILITY_NEGATIVE, 1, s) # 0 THEN FALSE
    ELSE IF FirstMatch(AVAILABILITY_POSITIVE, 1, s) # 0 THEN TRUE
    ELSE FALSE


(***************************************************************************)
(* Strings of the evidence list.  An evidence string is its fixed text     *)
(* and its length in characters.                                           *)
(***************************************************************************)
EvidenceLimit == 300    \* "; ".join(evidence)[:300]
HtmlPreviewLen == 200   \* button_element.inner_html()[:200]
AvalLen == 4            \* len('aval')
LongPieceLen == 290     \* length of the long class name of the model

\* Pieces a class attribute is made of, and their lengths in characters.
\* "sp" is a space, "long" a long class name of no meaning to the checker.
ClassPieces == { "sold-out", "-layout", "pointer-", "none", "disabled",
                 "day-", "active", "sp", "long" }

PieceLen(p) ==
    CASE p = "sold-out" -> 8
      [] p = "-layout"  -> 7
      [] p = "pointer-" -> 8
      [] p = "none"     -> 4
      [] p = "disabled" -> 8
      [] p = "day-"     -> 4
      [] p = "active"   -> 6
      [] p = "sp"       -> 1
      [] p = "long"     -> LongPieceLen

RECURSIVE StrLen(_)
StrLen(s) == IF s = << >> THEN 0 ELSE PieceLen(Head(s)) + StrLen(Tail(s))

\* sub in s  (Python's substring test, on pieces)
Contains(sub, s) ==
    \E k \in 0..(Len(s) - Len(sub)) : SubSeq(s, k + 1, k + Len(sub)) = sub

TextLen(txt) ==
    CASE txt = "available.svg found"                            -> 19
      [] txt = "only_one_left.svg found"                        -> 23
      [] txt = "sold_out.svg found"                             -> 18
      [] txt = "sold-out-layout class"                          -> 21
      [] txt = "pointer-none class (closed)"                    -> 27
      [] txt = "day-active + aval found"                        -> 23
      [] txt = "day-active but no clear availability indicator" -> 46
      [] txt = "unknown button state: "                         -> 22
      [] txt = "found day element but no parent button"         -> 38
      [] txt = "date element not found"                         -> 22
      [] txt = "error: "                                        -> 7

\* A fixed evidence string, and one with a formatted tail of n characters.
Ev(txt) == [txt |-> txt, len |-> TextLen(txt)]
EvF(txt, n) == [txt |-> txt, len |-> TextLen(txt) + n]

(***************************************************************************)
(* The cell classifier of the multi-date loop.                             *)
(* A cell is the button found for the day: its class attribute, the        *)
(* position of 'aval' in its inner HTML (0: absent) and its three icons.   *)
(***************************************************************************)
AvalPositions == { 0, 1, HtmlPreviewLen - 1 }

CellsOver(classes) ==
    [ cls : classes, avalPos : AvalPositions,
      available_img : BOOLEAN, sold_out_img : BOOLEAN, few_left_img : BOOLEAN ]

Cells == CellsOver(SeqsUpTo(ClassPieces, MaxClassLen))

\* 'aval' in button_element.inner_html()[:200]
aval_in_button_html(c) ==
    c.avalPos >= 1 /\ c.avalPos + AvalLen - 1 <= HtmlPreviewLen

Res(v, e) == [verdict |-> v, evidence |-> << e >>]

\* The classifier with the class tests of the design document: 'sold-out',
\* 'pointer-disabled', 'active'.
ClassifyButton_spec_markers(c) ==
    IF c.available_img THEN Res("AVAILABLE", Ev("available.svg found"))
    ELSE IF c.few_left_img THEN Res("AVAILABLE", Ev("only_one_left.svg found"))
    ELSE IF c.sold_out_img THEN Res("UNAVAILABLE", Ev("sold_out.svg found"))
    ELSE IF Contains(<< "sold-out" >>, c.cls)
         THEN Res("UNAVAILABLE", Ev("sold-out-layout class"))
    ELSE IF Contains(<< "pointer-", "disabled" >>, c.cls)
         THEN Res("UNAVAILABLE", Ev("pointer-none class (closed)"))
    ELSE IF Contains(<< "active" >>, c.cls)
         THEN IF aval_in_button_html(c)
              THEN Res("AVAILABLE", Ev("day-active + aval found"))
              ELSE Res("UNSURE", Ev("day-active but no clear availability indicator"))
    ELSE Res("UNSURE", EvF("unknown button state: ", StrLen(c.cls)))

\* if available_img: ... elif ... else: evidence.append(f"unknown button state: ...")
ClassifyButton(c) ==
    IF c.available_img THEN Res("AVAILABLE", Ev("available.svg found"))
    ELSE IF c.few_left_img THEN Res("AVAILABLE", Ev("only_one_left.svg found"))
    ELSE IF c.sold_out_img THEN Res("UNAVAILABLE", Ev("sold_out.svg found"))
    ELSE IF Contains(<< "sold-out", "-layout" >>, c.cls)
         THEN Res("UNAVAILABLE", Ev("sold-out-layout class"))
    ELSE IF Contains(<< "pointer-", "none" >>, c.cls)
         THEN Res("UNAVAILABLE", Ev("pointer-none class (closed)"))
    ELSE IF Contains(<< "day-", "active" >>, c.cls)
         THEN IF aval_in_button_html(c)
              THEN Res("AVAILABLE", Ev("day-active + aval found"))
              ELSE Res("UNSURE", Ev("day-active but no clear availability indicator"))
    ELSE Res("UNSURE", EvF("unknown button state: ", StrLen(c.cls)))

\* "; ".join(evidence)
RECURSIVE SumLen(_)
SumLen(ev) == IF ev = << >> THEN 0 ELSE Head(ev).len + SumLen(Tail(ev))

JoinLen(ev) == IF ev = << >> THEN 0 ELSE SumLen(ev) + 2 * (Len(ev) - 1)

\* The join without the slice.
RecordedEvidence_unsliced(ev) ==
    [parts |-> [k \in 1..Len(ev) |-> ev[k].txt], len |-> JoinLen(ev)]

\* "; ".join(evidence)[:300]
RecordedEvidence(ev) ==
    [parts |-> [k \in 1..Len(ev) |-> ev[k].txt],
     len |-> Min(JoinLen(ev), EvidenceLimit)]


(***************************************************************************)
(* The inputs of a run: the batch of dates, the calendar the site shows.   *)
(***************************************************************************)
Ym(y, m) == y * 12 + (m - 1)        \* a month, as months since year 0
Sep2025 == Ym(2025, 9)
Oct2025 == Ym(2025, 10)

\* A date string of the batch.  "2025-10" is a string d.split('-') does not
\* unpack into three parts.
Date(y, m, d) == [ok |-> TRUE, y |-> y, m |-> m, d |-> d]
Malformed == [ok |-> FALSE, y |-> 0, m |-> 0, d |-> 0]
DateSet == { Date(2025, 10, 7), Date(2025, 11, 3), Malformed }

StartMonths == { Ym(2025, 8), Sep2025, Oct2025 }

\* The month heading of the calendar: "October 2025", "OCTOBER 2025", or a
\* heading the month pattern does not match (such as "2025/10").
Forms == { "title", "upper", "none" }

Channels == { "desktop", "telegram", "email" }

\* Lengths of the exception messages of the model.
ErrLens == { 12, 400 }

Cell(cls, pos, a, s, f) ==
    [cls |-> cls, avalPos |-> pos, available_img |-> a, sold_out_img |-> s,
     few_left_img |-> f]

\* The cells a run of the model meets on the page.
PageCells ==
    { Cell(<< "day-", "active" >>, 0, TRUE, FALSE, FALSE),
      Cell(<< "sold-out", "-layout" >>, 0, FALSE, FALSE, FALSE),
      Cell(<< "day-", "active" >>, 1, FALSE, FALSE, FALSE),
      Cell(<< "long", "sp", "long" >>, 0, FALSE, FALSE, FALSE) }

(***************************************************************************)
(* What the program reads from the document its handle points at.          *)
(***************************************************************************)
\* calendar_page = getattr(page, '_iframe_calendar', page): the handle sees
\* the calendar when it is the frame, or when the calendar is in the
\* top-level document.
CalendarVisible == IF frame THEN host = "frame" ELSE host = "top"

\* re.search(month_pattern, text, re.I) on a text holding the heading
MonthMatches == form \in { "title", "upper" }

\* "October 2025" in month_text
ShowsOctoberText == CalendarVisible /\ form = "title" /\ shown = Oct2025

(***************************************************************************)
(* Initial states.                                                         *)
(***************************************************************************)
NoCell == Cell(<< >>, 0, FALSE, FALSE, FALSE)

NoAnswer == [verdict |-> "none", evidence |-> << >>]

RunDefaults ==
    /\ browser = "none" /\ context = "none"
    /\ exc = "none" /\ cleanup = "none" /\ outcome = "running" /\ code = 0
    /\ idx = 1 /\ results = << >> /\ verdict = "UNSURE" /\ evidence = << >>
    /\ frame = FALSE /\ navigated = FALSE /\ clicks = 0
    /\ printed = FALSE /\ is_open = FALSE
    /\ calls = << >> /\ sent = {} /\ failed = {} /\ log = << >>
    /\ ServiceOff

RunStart ==
    /\ pc = "launch"
    /\ RunDefaults
    /\ text = << >> /\ cell = NoCell /\ answer = NoAnswer

InitMulti ==
    /\ mode = "multi"
    /\ dates \in SeqsUpTo(DateSet, MaxDates)
    /\ host \in { "frame", "top" }
    /\ shown \in StartMonths
    /\ form \in Forms
    /\ enabled = Channels
    /\ RunStart

InitSingle ==
    /\ mode = "single"
    /\ dates = << >> /\ host = "top" /\ shown = Oct2025 /\ form = "title"
    /\ enabled \in SUBSET Channels
    /\ RunStart

Init == InitMulti \/ InitSingle

(***************************************************************************)
(* Steps shared by main() and the __main__ block.                          *)
(***************************************************************************)
RunVars == << dates, host, form, enabled, mode, text, cell, answer,
             ServiceVars >>

\* browser = p.chromium.launch(); context = browser.new_context();
\* page = context.new_page().  None of the three is inside the try block.
Launch ==
    /\ pc = "launch"
    /\ \/ /\ browser' = "open" /\ context' = "open"
          /\ pc' = "goto"
          /\ UNCHANGED << outcome, code >>
       \/ /\ \E b \in { "none", "open" } : \E c \in { "none", "open" } :
                /\ c = "open" => b = "open"
                /\ browser' = b /\ context' = c
          /\ pc' = "aborted" /\ outcome' = "raised" /\ code' = 1
    /\ UNCHANGED << exc, cleanup, idx, results, verdict, evidence, frame, navigated,
                    shown, clicks, printed, is_open, calls, sent, failed,
                    log >>
    /\ UNCHANGED RunVars

\* page.goto(TARGET_URL, timeout=TIMEOUT_MS)
Goto ==
    /\ pc = "goto"
    /\ \/ /\ exc' = "none"
          /\ pc' = IF mode = "single" THEN "picker" ELSE "popup"
       \/ /\ exc' \in { "timeout", "error" }
          /\ pc' = "finally"
    /\ UNCHANGED << browser, context, cleanup, outcome, code, idx, results,
                    verdict, evidence, frame, navigated, shown, clicks,
                    printed, is_open, calls, sent, failed, log >>
    /\ UNCHANGED RunVars

\* main(): return 0 / return 2 / return 3 from the try block and its except
\* clauses; an exception raised by the finally block replaces the return.
main_result(e, cl) ==
    IF cl # "done" THEN [outcome |-> "raised", code |-> 1]
    ELSE CASE e = "none"    -> [outcome |-> "returned", code |-> 0]
           [] e = "timeout" -> [outcome |-> "returned", code |-> 2]
           [] e = "error"   -> [outcome |-> "returned", code |-> 3]

\* The __main__ block has no except clause: the script ends normally (exit
\* code 0) or an exception ends the process (exit code 1).
script_result(e, cl) ==
    IF e = "none" /\ cl = "done" THEN [outcome |-> "returned", code |-> 0]
    ELSE [outcome |-> "raised", code |-> 1]

RunResult(e, cl) ==
    IF mode = "single" THEN main_result(e, cl) ELSE script_result(e, cl)

\* finally: context.close(); browser.close()
\* Either call may raise; when context.close() raises, browser.close() is
\* not reached.
Finally ==
    /\ pc = "finally"
    /\ \/ /\ context' = "closed" /\ browser' = "closed" /\ cleanup' = "done"
       \/ /\ context' = "closed" /\ browser' = browser
          /\ cleanup' = "browser raised"
       \/ /\ context' = context /\ browser' = browser
          /\ cleanup' = "context raised"
    /\ outcome' = RunResult(exc, cleanup').outcome
    /\ code' = RunResult(exc, cleanup').code
    /\ pc' = "exit"
    /\ UNCHANGED << exc, idx, results, verdict, evidence, frame, navigated,
                    shown, clicks, printed, is_open, calls, sent, failed, log >>
    /\ UNCHANGED RunVars

(***************************************************************************)
(* main(): the single-date entry point.                                    *)
(***************************************************************************)
\* The two "with suppress(Exception)" blocks around the date picker: what
\* they raise is dropped.
DatePicker ==
    /\ pc = "picker"
    /\ \E raised \in BOOLEAN :
          log' = Append(log, [kind |-> "picker", raised |-> raised])
    /\ pc' = "scrape"
    /\ UNCHANGED << browser, context, exc, cleanup, outcome, code, idx,
                    results, verdict, evidence, frame, navigated, shown,
                    clicks, printed, is_open, calls, sent, failed >>
    /\ UNCHANGED RunVars

\* page.wait_for_timeout(1500); full_text = page.inner_text("body");
\* is_open = looks_available(full_text)
Scrape ==
    /\ pc = "scrape"
    /\ \/ \E t \in Texts :
            /\ is_open' = looks_available(t)
            /\ pc' = IF is_open' THEN "desktop" ELSE "finally"
            /\ exc' = exc
       \/ /\ exc' \in { "timeout", "error" }
          /\ pc' = "finally"
          /\ is_open' = is_open
    /\ UNCHANGED << browser, context, cleanup, outcome, code, idx, results,
                    verdict, evidence, frame, navigated, shown, clicks,
                    printed, calls, sent, failed, log >>
    /\ UNCHANGED RunVars

\* A notifier called with the message: it returns at once when its channel
\* is not configured, attempts one delivery otherwise, and drops a failure
\* (os.system(... || true), suppress(Exception), except Exception).
Notify(ch, next) ==
    /\ calls' = Append(calls, ch)
    /\ IF ch \in enabled
       THEN /\ sent' = sent \cup { ch }
            /\ \/ failed' = failed
               \/ failed' = failed \cup { ch }
       ELSE UNCHANGED << sent, failed >>
    /\ pc' = next
    /\ UNCHANGED << browser, context, exc, cleanup, outcome, code, idx,
                    results, verdict, evidence, frame, navigated, shown,
                    clicks, printed, is_open, log >>
    /\ UNCHANGED RunVars

desktop_notify == pc = "desktop" /\ Notify("desktop", "telegram")

telegram_notify == pc = "telegram" /\ Notify("telegram", "email")

email_notify == pc = "email" /\ Notify("email", "finally")


(***************************************************************************)
(* The __main__ block: the multi-date entry point.                         *)
(***************************************************************************)
NotifyVars == << is_open, calls, sent, failed >>
BrowserVars == << browser, context, cleanup, outcome, code >>

\* The popup block: try ... except Exception.  popup_found is only printed.
Popup ==
    /\ pc = "popup"
    /\ pc' = "iframe"
    /\ UNCHANGED << exc, idx, results, verdict, evidence, frame, navigated,
                    shown, clicks, printed, log >>
    /\ UNCHANGED << BrowserVars, NotifyVars, RunVars >>

\* The iframe block.  Outcomes, in the order of the code:
\*   the frame is not obtained (no iframe, no content frame, an exception
\*     before page._iframe_calendar is set);
\*   the frame is obtained and the month block does nothing (its text
\*     cannot be read, no month matches, another month is shown, the arrow
\*     is not found or the click raises);
\*   September 2025 is shown: one click, and the flag is set when the text
\*     read after the click still matches;
\*   October 2025 is shown: the flag is set.
Iframe ==
    /\ pc = "iframe"
    /\ \/ UNCHANGED << frame, navigated, shown, clicks >>
       \/ /\ host = "frame"
          /\ frame' = TRUE
          /\ \/ UNCHANGED << navigated, shown, clicks >>
             \/ /\ MonthMatches /\ shown = Sep2025
                /\ shown' = shown + 1 /\ clicks' = clicks + 1
                /\ navigated' \in BOOLEAN
             \/ /\ MonthMatches /\ shown = Oct2025
                /\ navigated' = TRUE
                /\ UNCHANGED << shown, clicks >>
    /\ pc' = "loop"
    /\ UNCHANGED << exc, idx, results, verdict, evidence, printed, log >>
    /\ UNCHANGED << BrowserVars, NotifyVars, RunVars >>

\* for d in dates: ... target_year, target_month, target_day = d.split('-')
\* The unpacking is outside every try block of the loop.
LoopHead ==
    /\ pc = "loop"
    /\ IF idx > Len(dates)
       THEN /\ pc' = "summary"
            /\ UNCHANGED << exc, log >>
       ELSE IF dates[idx].ok
       THEN /\ pc' = "month"
            /\ UNCHANGED << exc, log >>
       ELSE /\ pc' = "finally" /\ exc' = "error"
            /\ log' = Append(log, [kind |-> "unparsed"])
    /\ UNCHANGED << idx, results, verdict, evidence, frame, navigated, shown,
                    clicks, printed >>
    /\ UNCHANGED << BrowserVars, NotifyVars, RunVars >>

\* The month block of the loop (try ... except Exception):
\*   if the flag is set, or "October 2025" is in the text and the target is
\*   October 2025: nothing; otherwise the next arrow is clicked when found.
MonthNav ==
    /\ pc = "month"
    /\ LET d == dates[idx]
           skip == \/ navigated
                   \/ ShowsOctoberText /\ d.m = 10 /\ d.y = 2025
       IN  \/ UNCHANGED << shown, clicks >>    \* text unreadable, skip, no arrow, click raised
           \/ /\ ~skip /\ CalendarVisible
              /\ shown' = shown + 1 /\ clicks' = clicks + 1
    /\ pc' = "inspect"
    /\ UNCHANGED << exc, idx, results, verdict, evidence, frame, navigated,
                    printed, log >>
    /\ UNCHANGED << BrowserVars, NotifyVars, RunVars >>


\* evidence.append(f"error: {e}") for a message of n characters
ErrorEvidence(n) == EvF("error: ", n)

\* The inspection block of the loop (try ... except Exception as e).
\* verdict = "UNSURE"; evidence = []; then one of:
\*   a query raises:                      evidence = [error]
\*   no selector finds the day:           evidence = [not found], and
\*       [not found, error] when the listing of the visible days raises
\*   the day has no parent button:        evidence = [no parent button]
\*   the button is found and read:        ClassifyButton
\*   reading the button raises:           evidence = [error]
Inspect ==
    /\ pc = "inspect"
    /\ \/ \E n \in ErrLens :
            /\ verdict' = "UNSURE"
            /\ evidence' = << ErrorEvidence(n) >>
            /\ log' = Append(log, [kind |-> "raised"])
       \/ /\ verdict' = "UNSURE"
          /\ \/ evidence' = << Ev("date element not found") >>
             \/ \E n \in ErrLens :
                  evidence' = << Ev("date element not found"), ErrorEvidence(n) >>
          /\ log' = Append(log, [kind |-> "not found"])
       \/ /\ verdict' = "UNSURE"
          /\ evidence' = << Ev("found day element but no parent button") >>
          /\ log' = Append(log, [kind |-> "no button"])
       \/ \E c \in PageCells :
            /\ verdict' = ClassifyButton(c).verdict
            /\ evidence' = ClassifyButton(c).evidence
            /\ log' = Append(log, [kind |-> "classified", cell |-> c])
    /\ pc' = "screenshot"
    /\ UNCHANGED << exc, idx, results, frame, navigated, shown, clicks,
                    printed >>
    /\ UNCHANGED << BrowserVars, NotifyVars, RunVars >>

\* results.append({"date": d, "verdict": verdict,
\*                 "evidence": "; ".join(evidence)[:300]})
ResultEntry(d, v, ev) ==
    [date |-> d, verdict |-> v, evidence |-> RecordedEvidence(ev)]

\* try: calendar_page.screenshot(...)  except: page.screenshot(...)
\* followed by results.append(...).  The second screenshot is inside the
\* except clause, so what it raises leaves the loop.
Screenshot ==
    /\ pc = "screenshot"
    /\ \/ /\ results' = Append(results, ResultEntry(dates[idx], verdict, evidence))
          /\ idx' = idx + 1
          /\ pc' = "loop"
          /\ exc' = exc
       \/ /\ exc' = "error"
          /\ pc' = "finally"
          /\ UNCHANGED << results, idx >>
    /\ UNCHANGED << verdict, evidence, frame, navigated, shown, clicks,
                    printed, log >>
    /\ UNCHANGED << BrowserVars, NotifyVars, RunVars >>

\* print("Summary: ..."); for r in results: print(...)
Summary ==
    /\ pc = "summary"
    /\ printed' = TRUE
    /\ pc' = "finally"
    /\ UNCHANGED << exc, idx, results, verdict, evidence, frame, navigated,
                    shown, clicks, log >>
    /\ UNCHANGED << BrowserVars, NotifyVars, RunVars >>

Next ==
    \/ Launch
    \/ Goto
    \/ DatePicker
    \/ Scrape
    \/ desktop_notify
    \/ telegram_notify
    \/ email_notify
    \/ Popup
    \/ Iframe
    \/ LoopHead
    \/ MonthNav
    \/ Inspect
    \/ Screenshot
    \/ Summary
    \/ Finally

Spec == Init /\ [][Next]_vars


(***************************************************************************)
(* The two classifiers on their own: every input of the bounds, one call.  *)
(***************************************************************************)
PureDefaults ==
    /\ dates = << >> /\ host = "top" /\ shown = Oct2025 /\ form = "title"
    /\ enabled = {}
    /\ RunDefaults

InitLooks ==
    /\ mode = "looks" /\ pc = "call"
    /\ text \in Texts
    /\ cell = NoCell /\ answer = NoAnswer
    /\ PureDefaults

\* is_open = looks_available(full_text)
CallLooksAvailable ==
    /\ mode = "looks" /\ pc = "call"
    /\ answer' = [verdict |-> IF looks_available(text) THEN "AVAILABLE"
                              ELSE "UNAVAILABLE",
                  evidence |-> << >>]
    /\ pc' = "done"
    /\ UNCHANGED << mode, browser, context, exc, cleanup, outcome, code, dates,
                    idx, results, verdict, evidence, frame, navigated, host,
                    shown, form, clicks, printed, is_open, calls, sent, failed,
                    enabled, log, text, cell, ServiceVars >>

SpecLooks == InitLooks /\ [][CallLooksAvailable]_vars

InitCell ==
    /\ mode = "cell" /\ pc = "call"
    /\ cell \in Cells
    /\ text = << >> /\ answer = NoAnswer
    /\ PureDefaults

\* The if / elif chain applied to the button of the day.
CallClassifyButton ==
    /\ mode = "cell" /\ pc = "call"
    /\ answer' = ClassifyButton(cell)
    /\ pc' = "done"
    /\ UNCHANGED << mode, browser, context, exc, cleanup, outcome, code, dates,
                    idx, results, verdict, evidence, frame, navigated, host,
                    shown, form, clicks, printed, is_open, calls, sent, failed,
                    enabled, log, text, cell, ServiceVars >>

SpecCell == InitCell /\ [][CallClassifyButton]_vars


(***************************************************************************)
(* Properties.                                                             *)
(***************************************************************************)

\* The markers of a page text, stated on the text itself.
NegativeSymbols == { "unavailable", "cross1", "cross2", "cross3" }
PositiveSymbols == { "circle1", "circle2", "triangle" }

\* The words a, b are in s, in any case, with nothing but white space between.
PhraseIn(s, a, b) ==
    \E i \in 1..Len(s) : \E j \in (i + 1)..Len(s) :
        /\ Fold(s[i]) = a /\ Fold(s[j]) = b
        /\ \A k \in (i + 1)..(j - 1) : s[k] = "ws"

HasNegativeMarker(s) ==
    \/ \E i \in 1..Len(s) : s[i] \in NegativeSymbols
    \/ PhraseIn(s, "sold", "out")
    \/ PhraseIn(s, "fully", "booked")

HasPositiveMarker(s) == \E i \in 1..Len(s) : s[i] \in PositiveSymbols

Adjacent(cls, a, b) ==
    \E k \in 1..(Len(cls) - 1) : cls[k] = a /\ cls[k + 1] = b

HasPiece(cls, a) == \E k \in 1..Len(cls) : cls[k] = a

\* The verdict of the first rule that matches, UNSURE when none does.
FirstRule(matches, verdicts) ==
    IF \E k \in 1..Len(matches) : matches[k]
    THEN verdicts[CHOOSE k \in 1..Len(matches) :
                      matches[k] /\ \A j \in 1..(k - 1) : ~matches[j]]
    ELSE "UNSURE"

RuleVerdicts ==
    << "AVAILABLE", "AVAILABLE", "UNAVAILABLE", "UNAVAILABLE", "UNAVAILABLE",
       "AVAILABLE" >>

NoIcon(c) == ~c.available_img /\ ~c.few_left_img /\ ~c.sold_out_img

Ended == pc \in { "exit", "aborted" }

\* The processing of some date of the batch raised: its inspection (caught
\* by the loop), or the parsing of the date or its screenshots (which end
\* the loop).
SomeDateRaised ==
    \/ \E k \in 1..Len(log) : log[k].kind = "raised"
    \/ exc = "error" /\ log # << >>

\* C1: in a multi-date run over a batch of two dates or more where the
\* processing of some date K raised, every other date is still processed
\* and classified and the summary has one entry per requested date.
C1_PartialFailure ==
    (mode = "multi" /\ Ended /\ Len(dates) >= 2 /\ SomeDateRaised) =>
        /\ printed
        /\ Len(results) = Len(dates)
        /\ Len(log) = Len(dates)
        /\ \A j \in 1..Len(log) :
              log[j].kind = "classified" =>
                  results[j].verdict = ClassifyButton(log[j].cell).verdict

\* A date of the run has been classified AVAILABLE.
ClassifiedAvailable ==
    \/ mode = "single" /\ is_open
    \/ mode = "multi" /\ \E k \in 1..Len(results) : results[k].verdict = "AVAILABLE"

\* C2: a run (single-date or multi-date) that classified a date AVAILABLE
\* and ended normally has handed the verdict to the three notifiers.
C2_AvailableIsNotified ==
    (pc = "exit" /\ outcome = "returned" /\ ClassifiedAvailable) =>
        calls = << "desktop", "telegram", "email" >>

C4_AlwaysExitZero ==
    (mode = "multi" /\ pc = "exit") =>
        (printed /\ outcome = "returned" /\ code = 0)

\* page.goto timed out: a timeout before the date picker was reached.
PageLoadTimedOut == exc = "timeout" /\ log = << >>

\* C5: main() returns one of 0, 2, 3: 0 when the check ran to completion,
\* 2 when the page load timed out, 3 on any other error; a failure in the
\* date picker leaves the result 0.
C5_MainReturnCodes ==
    (mode = "single" /\ Ended) =>
        /\ outcome = "returned"
        /\ code \in { 0, 2, 3 }
        /\ (pc = "exit" /\ exc = "none") => code = 0
        /\ PageLoadTimedOut => code = 2
        /\ (pc = "aborted" \/ (exc # "none" /\ ~PageLoadTimedOut)) => code = 3

\* C8: a date whose cell no selector found gets the result UNSURE with the
\* evidence 'date element not found', and the run goes on to the next date.
C8_NotFoundIsUnsure ==
    (mode = "multi" /\ Ended) =>
        \A k \in 1..Len(log) :
            log[k].kind = "not found" =>
                /\ Len(results) >= k
                /\ results[k].verdict = "UNSURE"
                /\ results[k].evidence.parts = << "date element not found" >>
                /\ k < Len(dates) => Len(log) > k

\* C9: the evidence field of every entry of results is at most 300
\* characters long.
C9_EvidenceBounded ==
    \A k \in 1..Len(results) : results[k].evidence.len <= EvidenceLimit

\* C9 witness: an entry whose joined evidence was longer than 300 characters
\* (an error message of 400) has been recorded with a field of 300.
C9_Witness ==
    \E k \in 1..Len(results) :
        /\ results[k].evidence.parts = << "date element not found", "error: " >>
        /\ results[k].evidence.len = EvidenceLimit

\* C10: one multi-date run clicks the next-month arrow at most once, the
\* frame setup and the per-date loop taken together.
C10_AtMostOneClick == mode = "multi" => clicks <= 1


\* The month the calendar displayed when the run began: every click of the
\* run moves the calendar one month forward.
InitiallyShown == shown - clicks

\* C11: when the displayed month was parsed from the visible text (the frame
\* setup matched it and set its flag) and the month of the target date is
\* the month displayed at the start or the one right after it, the calendar
\* shows the month and year of the target date at the moment the cell of
\* that date is classified.
C11_TargetMonthShown ==
    (/\ mode = "multi" /\ pc = "inspect" /\ navigated
     /\ Ym(dates[idx].y, dates[idx].m) \in { InitiallyShown, InitiallyShown + 1 })
        => shown = Ym(dates[idx].y, dates[idx].m)

\* C12: a screenshot that fails never surfaces: every date whose inspection
\* was done has its result appended, and after it the next date is taken up
\* or, after the last date, the summary is printed.
C12_ScreenshotSwallowed ==
    (mode = "multi" /\ pc = "exit") =>
        \A k \in 1..Len(log) :
            log[k].kind # "unparsed" =>
                /\ Len(results) >= k
                /\ k < Len(dates) => Len(log) > k
                /\ k = Len(dates) => printed

\* C13: once main() has detected availability, each notifier has been
\* called once and in order, each enabled channel has been attempted, a
\* failed channel has stopped no later one, and main() returns 0 even when
\* every channel failed.
C13_DeliveryFailureContained ==
    (mode = "single" /\ pc = "exit" /\ is_open) =>
        /\ calls = << "desktop", "telegram", "email" >>
        /\ sent = enabled
        /\ failed \subseteq sent
        /\ (enabled = Channels /\ failed = Channels) =>
               (outcome = "returned" /\ code = 0)

\* C14: when no month name followed by a year can be matched in the visible
\* text of the calendar, the run issues no month click at all, so every date
\* is classified against the month that was visible at the start.
C14_NoMatchNoClick ==
    (mode = "multi" /\ ~MonthMatches) => clicks = 0


(***************************************************************************)
(* The scheduler service: railway_service.py and test_both_museums.py.     *)
(* Time is counted in minutes.  The service is one sequential process: the *)
(* position spc moves through                                              *)
(*   "start"    schedule.every(20).minutes.do(job), then job() at once     *)
(*   "job"      job() entered                                              *)
(*   "check"    main() is about to call check_museum for the next museum   *)
(*   "wait"     check_museum is inside subprocess.run                      *)
(*   "summary"  main() prints its summary                                  *)
(*   "jobend"   job() after its try statement                              *)
(*   "pending"  schedule.run_pending()                                     *)
(*   "sleep"    time.sleep(60)                                             *)
(***************************************************************************)
Interval == 20          \* schedule.every(20).minutes
Timeout == 2            \* subprocess.run(..., timeout=120), in minutes
SleepStep == 1          \* time.sleep(60), in minutes

Museums == << "Chichu Art Museum", "Teshima Art Museum" >>

\* How a call of subprocess.run can end.
ChildOutcomes == { "exit 0", "exit non-zero", "timeout", "error" }

Max(a, b) == IF a > b THEN a ELSE b

\* A variant of subprocess.run that returns while the child is still alive.
subprocess_left_running(act) == act

\* subprocess.run returns, or raises, only once the child it started is gone:
\* it has exited, or it was killed and waited for after the timeout.
subprocess_run(act) == SubSeq(act, 1, Len(act) - 1)

\* A variant of check_museum without the handler of TimeoutExpired.
check_museum_timeout_raises(o) ==
    [raised |-> o = "timeout", value |-> o = "exit 0"]

\* check_museum: return result.returncode == 0; both except clauses
\* return False.
check_museum(o) == [raised |-> FALSE, value |-> o = "exit 0"]

CheckerVars == << mode, pc, browser, context, exc, cleanup, outcome, code,
                  dates, idx, results, verdict, evidence, frame, navigated,
                  host, shown, form, clicks, printed, is_open, calls, sent,
                  failed, enabled, log, text, cell, answer >>

InitService ==
    /\ mode = "service" /\ pc = "off"
    /\ text = << >> /\ cell = NoCell /\ answer = NoAnswer
    /\ dates = << >> /\ host = "top" /\ shown = Oct2025 /\ form = "title"
    /\ enabled = {}
    /\ browser = "none" /\ context = "none"
    /\ exc = "none" /\ cleanup = "none" /\ outcome = "running" /\ code = 0
    /\ idx = 1 /\ results = << >> /\ verdict = "UNSURE" /\ evidence = << >>
    /\ frame = FALSE /\ navigated = FALSE /\ clicks = 0
    /\ printed = FALSE /\ is_open = FALSE
    /\ calls = << >> /\ sent = {} /\ failed = {} /\ log = << >>
    /\ spc = "start" /\ left = 0 /\ elapsed = 0
    /\ active = << >> /\ success = << >> /\ runs = 0

\* schedule.every(20).minutes.do(job); the two prints; job()
ServiceStart ==
    /\ spc = "start"
    /\ left' = Interval
    /\ spc' = "job"
    /\ UNCHANGED << elapsed, active, success, runs, CheckerVars >>

\* job(): the print, then the try statement calls check_both_museums()
JobStart ==
    /\ spc = "job"
    /\ success' = << >>
    /\ spc' = "check"
    /\ UNCHANGED << left, elapsed, active, runs, CheckerVars >>

\* check_museum up to subprocess.run: the child is started, or starting it
\* raises (OSError), which check_museum turns into its result.
CheckLaunch ==
    /\ spc = "check"
    /\ LET m == Museums[Len(success) + 1]
       IN  \/ /\ active' = Append(active, m)
              /\ elapsed' = 0
              /\ spc' = "wait"
              /\ UNCHANGED success
           \/ /\ LET r == check_museum("error")
                 IN  IF r.raised
                     THEN /\ spc' = "jobend"
                          /\ UNCHANGED success
                     ELSE /\ success' = Append(success,
                                 [museum |-> m, outcome |-> "error", ok |-> r.value])
                          /\ spc' = IF Len(success') = Len(Museums)
                                    THEN "summary" ELSE "check"
              /\ UNCHANGED << active, elapsed >>
    /\ UNCHANGED << left, runs, CheckerVars >>

\* subprocess.run ends: the child exits, or the timeout expires and the
\* child is killed, or reading its output raises.  check_museum returns its
\* result to main(); what check_museum raises is caught by job().
CheckFinish ==
    /\ spc = "wait"
    /\ \E o \in ChildOutcomes :
          /\ o = "timeout" => elapsed = Timeout
          /\ active' = subprocess_run(active)
          /\ LET r == check_museum(o)
                 m == Museums[Len(success) + 1]
             IN  IF r.raised
                 THEN /\ spc' = "jobend"
                      /\ UNCHANGED success
                 ELSE /\ success' = Append(success,
                             [museum |-> m, outcome |-> o, ok |-> r.value])
                      /\ spc' = IF Len(success') = Len(Museums)
                                THEN "summary" ELSE "check"
    /\ UNCHANGED << left, elapsed, runs, CheckerVars >>

\* main(): the summary prints
MainSummary ==
    /\ spc = "summary"
    /\ spc' = "jobend"
    /\ UNCHANGED << left, elapsed, active, success, runs, CheckerVars >>

\* job(): print("Check completed").  A job run by run_pending is scheduled
\* again one interval after it has run; the first job is called directly.
JobEnd ==
    /\ spc = "jobend"
    /\ left' = IF runs > 0 THEN Interval ELSE left
    /\ runs' = Min(runs + 1, MaxRuns)
    /\ spc' = "pending"
    /\ UNCHANGED << elapsed, active, success, CheckerVars >>

\* schedule.run_pending(): the job is run here, in the loop, when it is due.
RunPending ==
    /\ spc = "pending"
    /\ spc' = IF left = 0 THEN "job" ELSE "sleep"
    /\ UNCHANGED << left, elapsed, active, success, runs, CheckerVars >>

\* time.sleep(60)
Sleep ==
    /\ spc = "sleep"
    /\ left' = Max(left - SleepStep, 0)
    /\ spc' = "pending"
    /\ UNCHANGED << elapsed, active, success, runs, CheckerVars >>

\* A minute passes while the job runs.  The child of subprocess.run lives
\* at most Timeout minutes; the steps of the service itself may take any
\* time.
Tick ==
    /\ spc \in { "job", "check", "wait", "summary", "jobend" }
    /\ IF spc = "wait"
       THEN elapsed < Timeout /\ elapsed' = elapsed + 1
       ELSE left > 0 /\ elapsed' = elapsed
    /\ left' = Max(left - 1, 0)
    /\ UNCHANGED << spc, active, success, runs, CheckerVars >>

ServiceNext ==
    \/ ServiceStart
    \/ JobStart
    \/ CheckLaunch
    \/ CheckFinish
    \/ MainSummary
    \/ JobEnd
    \/ RunPending
    \/ Sleep
    \/ Tick

SpecService == InitService /\ [][ServiceNext]_vars

\* The service is one process that keeps being scheduled: a step that is
\* possible is taken in the end.  The child of subprocess.run exits or is
\* killed at the timeout.
SpecServiceLive == SpecService /\ WF_vars(ServiceNext)

\* C15: the checks of the service are strictly serialized: at no time are
\* the child processes of two museum checks alive at once, whether of the
\* same run or of two runs, even when a run outlasts the interval; a child
\* is alive only while check_museum waits for it.
C15_ChecksSerialized ==
    mode = "service" =>
        /\ Len(active) <= 1
        /\ active # << >> => spc = "wait"

\* C15 witness: in a later run the second museum is being checked while the
\* job is due again (the run has outlasted the interval), and it is the only
\* check in progress.
C15_Witness ==
    /\ mode = "service" /\ spc = "wait" /\ runs >= 1 /\ left = 0
    /\ elapsed = Timeout
    /\ active = << "Teshima Art Museum" >>

\* The first check of the current run is about to start / has returned.
FirstCheckDue == mode = "service" /\ spc = "check" /\ success = << >>
FirstCheckDone ==
    mode = "service" /\ spc \in { "check", "summary" } /\ Len(success) >= 1

=============================================================================
